---- MODULE Spec2Model ----
(***************************************************************************)
(* Model of the eval runner of playwright-mcp-evals                        *)
(* (src/evals/evalRunner.ts, runEvalDataset).                              *)
(*                                                                         *)
(* One call of runEvalDataset is a sequential process that suspends at its *)
(* awaits: the tool call, each expectation function, and the per-case      *)
(* onCaseComplete callback.  Each action below is the resolution of one    *)
(* await together with all the synchronous code that follows it up to the  *)
(* next await (or up to the return / rejection of the call).               *)
(*                                                                         *)
(* Optional values (TypeScript undefined) are sequences of length 0 or 1:  *)
(* <<>> is undefined, <<v>> is the value v.                                *)
(***************************************************************************)
EXTENDS Integers, Sequences, FiniteSets, TLC

(***************************************************************************)
(* Bounds of the model.                                                    *)
(***************************************************************************)
MaxCases == 2

(***************************************************************************)
(* Values.                                                                 *)
(***************************************************************************)
Undefined == <<>>

Some(v) == <<v>>

\* ids of the cases of a dataset, by position
CaseIds == <<"case-a", "case-b", "case-c", "case-d">>

\* the expectation kinds of the specification (EvalCaseResult.expectations
\* of the data model); the runner's option type declares the first three
Kinds == {"exact", "schema", "judge", "textContains", "regex", "error"}

\* the kinds runEvalDataset dispatches, in the order of its code
RunnerKinds == <<"exact", "schema", "judge">>

\* label used by the runner in the details of an expectation that threw
KindLabel(k) ==
  CASE k = "exact" -> "Exact"
    [] k = "schema" -> "Schema"
    [] k = "judge" -> "Judge"

\* values a collaborator can throw: instances of Error with a message, or
\* any other value; str is String(err)
ThrownValues ==
  { [instanceOfError |-> TRUE, message |-> "", str |-> "Error"],
    [instanceOfError |-> TRUE, message |-> "boom", str |-> "Error: boom"],
    [instanceOfError |-> FALSE, message |-> "", str |-> "oops"] }

\* results of mcp.callTool: {content, structuredContent?, isError?}
ToolResults ==
  { [content |-> "content", structuredContent |-> Undefined,
     isError |-> Undefined] }

\* outcomes of awaiting mcp.callTool
ToolOutcomes ==
  { [threw |-> FALSE, value |-> r, err |-> Undefined] : r \in ToolResults }
  \cup
  { [threw |-> TRUE, value |-> Undefined, err |-> Some(e)] : e \in ThrownValues }

\* outcomes of awaiting an expectation function
ExpectationOutcomes ==
  { [threw |-> FALSE, pass |-> TRUE, str |-> ""],
    [threw |-> FALSE, pass |-> FALSE, str |-> ""],
    [threw |-> TRUE, pass |-> FALSE, str |-> "Error: bad"] }

\* outcomes of awaiting onCaseComplete
CallbackOutcomes ==
  { [threw |-> FALSE, str |-> ""],
    [threw |-> TRUE, str |-> "Error: disk full"] }

NoResult == Undefined

EmptyExpectations == [k \in {} |-> [pass |-> TRUE, details |-> <<>>]]

VARIABLES
  dataset,            \* options.dataset
  enabled,            \* kinds for which options.expectations holds a function
  stopOnFailure,      \* options.stopOnFailure
  hasCallback,        \* options.onCaseComplete is supplied
  pc,                 \* the await the call is suspended at, or its end
  idx,                \* position in dataset.cases of the case being processed
  response,           \* let response
  error,              \* let error
  expectationResults, \* const expectationResults
  caseResults,        \* const caseResults
  result,             \* the value the call resolved with
  rejection,          \* the value the call rejected with
  toolCalls,          \* history: outcome of the tool call of each case
  log,                \* history: the events of the call, in order
  call,               \* one call of an expectation function: its arguments
  returned            \* what that call returned or threw

vars == <<dataset, enabled, stopOnFailure, hasCallback, pc, idx, response,
          error, expectationResults, caseResults, result, rejection,
          toolCalls, log, call, returned>>

\* the state of one call of runEvalDataset
runnerVars == <<dataset, enabled, stopOnFailure, hasCallback, pc, idx,
                response, error, expectationResults, caseResults, result,
                rejection, toolCalls, log>>

\* the state of one call of an expectation function
expectVars == <<call, returned>>

options == <<dataset, enabled, stopOnFailure, hasCallback>>

\* an event of the call: what happened, for which case, for which kind
Event(ev, i, k) == <<ev, i, k>>

(***************************************************************************)
(* Pure parts of runEvalDataset.                                           *)
(***************************************************************************)

\* err instanceof Error ? err.message : String(err)
ErrorMessage(err) == IF err.instanceOfError THEN err.message ELSE err.str

\* JavaScript truthiness of `error: string | undefined`
Truthy(err) == err # Undefined /\ err[1] # ""

\* result.structuredContent ?? result.content
ResponseOf(r) ==
  IF r.structuredContent # Undefined THEN r.structuredContent
  ELSE Some(r.content)

\* the slot value the runner stores for an expectation outcome
SlotOf(k, outcome) ==
  IF outcome.threw
  THEN [pass |-> FALSE,
        details |-> <<KindLabel(k), " expectation threw error: ", outcome.str>>]
  ELSE [pass |-> outcome.pass, details |-> <<"returned by ", k>>]

\* !error && Object.values(expectationResults).every(r => r === undefined || r.pass)
CasePass(err, expRes) ==
  ~Truthy(err) /\ \A k \in DOMAIN expRes : expRes[k].pass

\* positions in RunnerKinds, after position p, of the kinds that are enabled
EnabledAfter(p) ==
  { q \in (p + 1)..Len(RunnerKinds) : RunnerKinds[q] \in enabled }

Min(S) == CHOOSE x \in S : \A y \in S : x <= y

PosOf(k) == CHOOSE p \in 1..Len(RunnerKinds) : RunnerKinds[p] = k

\* if (stopOnFailure && !pass) break
ShouldStopAlways(pass) == ~pass

ShouldStopNever(pass) == FALSE

ShouldStop(pass) == stopOnFailure /\ ~pass

\* if (onCaseComplete) await onCaseComplete(caseResult)
InvokesCallbackOnPass(pass) == hasCallback /\ pass

InvokesCallback(pass) == hasCallback

\* a throw of the awaited callback is not caught
CallbackSwallowed(outcome) == FALSE

CallbackPropagates(outcome) == outcome.threw

\* the returned EvalRunnerResult
MakeResultFromDataset(results) ==
  LET passed == Len(SelectSeq(results, LAMBDA r : r.pass))
  IN [total |-> Len(results), passed |-> passed,
      failed |-> Len(dataset.cases) - passed, caseResults |-> results]

MakeResult(results) ==
  [total |-> Len(results),
   passed |-> Len(SelectSeq(results, LAMBDA r : r.pass)),
   failed |-> Len(SelectSeq(results, LAMBDA r : ~r.pass)),
   caseResults |-> results]

\* const caseResult = {id: evalCase.id, pass, response, error, expectations}
CaseId(i) == dataset.cases[i].id

MakeCaseResult(i, err, resp, expRes) ==
  [id |-> CaseId(i), pass |-> CasePass(err, expRes), response |-> resp,
   error |-> err, expectations |-> expRes]

(***************************************************************************)
(* Synchronous continuations shared by the actions.                        *)
(***************************************************************************)

\* lines 281-296 and 189-199: the end of a loop iteration: break or fall out
\* of the loop and return, or start the next iteration up to its await of
\* callTool.  err, resp, expRes are the locals of the finished iteration.
LoopTail(pass, results, lg, err, resp, expRes) ==
  IF ShouldStop(pass) \/ idx >= Len(dataset.cases)
  THEN /\ pc' = "returned"
       /\ result' = Some(MakeResult(results))
       /\ log' = lg
       /\ idx' = idx
       /\ response' = resp
       /\ error' = err
       /\ expectationResults' = expRes
  ELSE /\ pc' = "callTool"
       /\ idx' = idx + 1
       /\ response' = Undefined
       /\ error' = Undefined
       /\ expectationResults' = EmptyExpectations
       /\ log' = Append(lg, Event("toolStart", idx + 1, "none"))
       /\ result' = result

\* lines 258-279: compute pass, push the case result, call the callback
FinishCase(err, resp, expRes, lg) ==
  LET caseResult == MakeCaseResult(idx, err, resp, expRes)
      results == Append(caseResults, caseResult)
      pushed == Append(lg, Event("push", idx, "none"))
  IN /\ caseResults' = results
     /\ IF InvokesCallback(caseResult.pass)
        THEN /\ pc' = "onCaseComplete"
             /\ log' = Append(pushed, Event("callbackStart", idx, "none"))
             /\ response' = resp
             /\ error' = err
             /\ expectationResults' = expRes
             /\ UNCHANGED <<idx, result>>
        ELSE LoopTail(caseResult.pass, results, pushed, err, resp, expRes)

\* lines 205-256: after the expectation at position p of RunnerKinds (0: after
\* the tool call), await the next enabled expectation, or finish the case
RunExpectationsAfter(p, err, resp, expRes, lg) ==
  IF ~Truthy(err) /\ EnabledAfter(p) # {}
  THEN LET k == RunnerKinds[Min(EnabledAfter(p))]
       IN /\ pc' = k
          /\ log' = Append(lg, Event("expectationStart", idx, k))
          /\ response' = resp
          /\ error' = err
          /\ expectationResults' = expRes
          /\ UNCHANGED <<idx, caseResults, result>>
  ELSE FinishCase(err, resp, expRes, lg)

(***************************************************************************)
(* The state after the call of runEvalDataset is set up.                   *)
(***************************************************************************)
Datasets ==
  { [name |-> "dataset", cases |-> [i \in 1..n |-> [id |-> CaseIds[i]]]] :
      n \in 0..MaxCases }

\* options.expectations: no function, one function, or two functions, of any
\* of the kinds
EnabledSets == {{}} \cup { {a, b} : a \in Kinds, b \in Kinds }

Init ==
  /\ dataset \in Datasets
  /\ enabled \in EnabledSets
  /\ stopOnFailure \in BOOLEAN
  /\ hasCallback \in BOOLEAN
  /\ pc = "start"
  /\ idx = 0
  /\ response = Undefined
  /\ error = Undefined
  /\ expectationResults = EmptyExpectations
  /\ caseResults = <<>>
  /\ result = NoResult
  /\ rejection = Undefined
  /\ toolCalls = <<>>
  /\ log = <<>>
  /\ call = Undefined
  /\ returned = Undefined

(***************************************************************************)
(* Actions.                                                                *)
(***************************************************************************)

\* lines 171-199: the call runs up to the first await of callTool, or returns
\* at once when the dataset has no case
Start ==
  /\ pc = "start"
  /\ IF Len(dataset.cases) = 0
     THEN /\ pc' = "returned"
          /\ result' = Some(MakeResult(caseResults))
          /\ UNCHANGED <<idx, log>>
     ELSE /\ pc' = "callTool"
          /\ idx' = 1
          /\ log' = <<Event("toolStart", 1, "none")>>
          /\ UNCHANGED result
  /\ UNCHANGED <<options, response, error, expectationResults, caseResults,
                 rejection, toolCalls, expectVars>>

\* lines 194-203, then on: the awaited tool call resolves or rejects
CallTool ==
  /\ pc = "callTool"
  /\ \E outcome \in ToolOutcomes :
       LET err == IF outcome.threw THEN Some(ErrorMessage(outcome.err[1]))
                  ELSE Undefined
           resp == IF outcome.threw THEN Undefined
                   ELSE ResponseOf(outcome.value)
           lg == Append(log, Event("toolEnd", idx, "none"))
       IN /\ toolCalls' = Append(toolCalls, outcome)
          /\ RunExpectationsAfter(0, err, resp, EmptyExpectations, lg)
  /\ UNCHANGED <<options, rejection, expectVars>>

\* lines 210-255: the awaited expectation function of kind k resolves or
\* rejects; its slot is set and the runner goes on
RunExpectation(k) ==
  /\ pc = k
  /\ \E outcome \in ExpectationOutcomes :
       LET slot == SlotOf(k, outcome)
           expRes == [j \in DOMAIN expectationResults \cup {k} |->
                        IF j = k THEN slot ELSE expectationResults[j]]
           ev == IF outcome.threw THEN "expectationThrew" ELSE "expectationEnd"
           lg == Append(log, Event(ev, idx, k))
       IN RunExpectationsAfter(PosOf(k), error, response, expRes, lg)
  /\ UNCHANGED <<options, rejection, toolCalls, expectVars>>

\* lines 277-285, then on: the awaited onCaseComplete resolves or rejects
OnCaseComplete ==
  /\ pc = "onCaseComplete"
  /\ \E outcome \in CallbackOutcomes :
       IF CallbackPropagates(outcome)
       THEN /\ pc' = "rejected"
            /\ rejection' = Some(outcome.str)
            /\ log' = Append(log, Event("callbackThrew", idx, "none"))
            /\ UNCHANGED <<idx, response, error, expectationResults, result>>
       ELSE /\ rejection' = rejection
            /\ LoopTail(caseResults[Len(caseResults)].pass, caseResults,
                        Append(log, Event(IF outcome.threw THEN "callbackThrew"
                                          ELSE "callbackEnd", idx, "none")),
                        error, response, expectationResults)
  /\ UNCHANGED <<options, caseResults, toolCalls, expectVars>>

Next ==
  \/ Start
  \/ CallTool
  \/ \E k \in {"exact", "schema", "judge"} : RunExpectation(k)
  \/ OnCaseComplete

Spec == Init /\ [][Next]_vars

(***************************************************************************)
(* Reading the history.                                                    *)
(***************************************************************************)

\* the cases whose result has been appended
Processed == 1..Len(caseResults)

\* the event happened
Happened(ev, i, k) == \E j \in 1..Len(log) : log[j] = Event(ev, i, k)

\* the events of case i, in order
CaseLog(i) == SelectSeq(log, LAMBDA e : e[2] = i)

\* the tool call of case i was started
ToolInvoked(i) == Happened("toolStart", i, "none")

\* the number of invocations of the expectation function of kind k for case i
Invocations(i, k) ==
  Len(SelectSeq(log, LAMBDA e : e = Event("expectationStart", i, k)))

\* the callback of case i has come back without throwing
CallbackDone(i) == Happened("callbackEnd", i, "none")

\* the events of a processed case: the tool call from start to end, then
\* each expectation invocation from start to end, one after the other and at
\* most one per kind, then the append of the result, then, exactly when a
\* callback is supplied, one invocation of the callback
CaseLogInOrder(cl) ==
  \E p \in 3..Len(cl) :
    /\ cl[p][1] = "push"
    /\ cl[1][1] = "toolStart"
    /\ cl[2][1] = "toolEnd"
    /\ \A j \in 3..(p - 1) :
         IF j % 2 = 1
         THEN /\ cl[j][1] = "expectationStart"
              /\ j + 1 < p
              /\ \A h \in 3..(j - 1) : cl[h][3] # cl[j][3]
         ELSE /\ cl[j][1] \in {"expectationEnd", "expectationThrew"}
              /\ cl[j][3] = cl[j - 1][3]
    /\ IF hasCallback
       THEN /\ Len(cl) \in {p + 1, p + 2}
            /\ cl[p + 1][1] = "callbackStart"
            /\ Len(cl) = p + 2 => cl[p + 2][1] \in {"callbackEnd", "callbackThrew"}
       ELSE Len(cl) = p

\* the callback of the case, when there is one, has come back
CaseLogComplete(cl) ==
  hasCallback => cl[Len(cl)][1] = "callbackEnd"

(***************************************************************************)
(* C1: for every case result, pass is true if and only if the tool call    *)
(* recorded no error and every expectation result present in the case's    *)
(* expectations record has pass = TRUE.                                    *)
(* Fails in the code: a tool call that throws an error with an empty       *)
(* message records error = "" and the case can still pass (see C2).        *)
(***************************************************************************)
C1_PassIsConjunction ==
  \A i \in Processed :
    caseResults[i].pass <=>
      /\ caseResults[i].error = Undefined
      /\ \A k \in DOMAIN caseResults[i].expectations :
           caseResults[i].expectations[k].pass

(***************************************************************************)
(* C2: whenever the tool call throws for a case, with any error value or   *)
(* message, the empty message included, the message is recorded as the     *)
(* case's error and the case result has pass = FALSE.                      *)
(***************************************************************************)
C2_ThrowAlwaysFails ==
  \A i \in Processed :
    toolCalls[i].threw =>
      /\ caseResults[i].error = Some(ErrorMessage(toolCalls[i].err[1]))
      /\ ~caseResults[i].pass

(***************************************************************************)
(* C3: whenever the tool call throws for a case, no expectation function   *)
(* is invoked for that case and the case result's expectations record is   *)
(* empty, whatever expectation functions are enabled.                      *)
(***************************************************************************)
C3_ThrowSkipsExpectations ==
  \A i \in 1..Len(toolCalls) :
    toolCalls[i].threw =>
      /\ \A k \in Kinds : Invocations(i, k) = 0
      /\ i \in Processed => DOMAIN caseResults[i].expectations = {}

(***************************************************************************)
(* C4: if an enabled expectation function throws for a case, the call does *)
(* not reject because of it, the slot of that kind records pass = FALSE    *)
(* with details naming the kind, every other enabled expectation function  *)
(* is still invoked for the case, and (when the run is not stopped on      *)
(* failure) the run goes on with the next case.                            *)
(***************************************************************************)
C4_ThrowingExpectationIsolated ==
  \A i \in Processed : \A k \in enabled :
    Happened("expectationThrew", i, k) =>
      /\ k \in DOMAIN caseResults[i].expectations
      /\ ~caseResults[i].expectations[k].pass
      /\ caseResults[i].expectations[k].details[1] = KindLabel(k)
      /\ \A k2 \in enabled \ {k} : Invocations(i, k2) = 1
      /\ pc = "rejected" => Happened("callbackThrew", Len(caseResults), "none")
      /\ (/\ ~stopOnFailure
          /\ i < Len(dataset.cases)
          /\ hasCallback => CallbackDone(i)) => ToolInvoked(i + 1)

(***************************************************************************)
(* C5: in every returned result, total = caseResults.length = passed +     *)
(* failed, passed counting the case results with pass = TRUE and failed    *)
(* those with pass = FALSE, for complete runs and for runs cut short by    *)
(* stopOnFailure.                                                          *)
(***************************************************************************)
C5_TotalsAddUp ==
  pc = "returned" =>
    LET r == result[1]
        n == Len(r.caseResults)
    IN /\ r.total = n
       /\ r.passed = Cardinality({ i \in 1..n : r.caseResults[i].pass })
       /\ r.failed = Cardinality({ i \in 1..n : ~r.caseResults[i].pass })
       /\ r.total = r.passed + r.failed

\* a run cut short by stopOnFailure has returned, with its failing case counted
C5_Witness ==
  /\ pc = "returned"
  /\ stopOnFailure
  /\ result[1].total < Len(dataset.cases)
  /\ result[1].failed = 1

(***************************************************************************)
(* C6: with stopOnFailure, the run stops after the first failing case: the *)
(* case results are the prefix of the dataset up to and including the      *)
(* first case whose pass is FALSE, all earlier results pass, total is the  *)
(* length of that prefix, and the tool is never called for a later case.   *)
(***************************************************************************)
C6_StopsAtFirstFailure ==
  stopOnFailure =>
    /\ \A i \in Processed :
         /\ caseResults[i].id = dataset.cases[i].id
         /\ i < Len(caseResults) => caseResults[i].pass
         /\ ~caseResults[i].pass =>
              \A j \in 1..Len(dataset.cases) : j > i => ~ToolInvoked(j)
    /\ pc = "returned" =>
         LET r == result[1]
             n == Len(r.caseResults)
         IN /\ r.caseResults = caseResults
            /\ r.total = n
            /\ n <= Len(dataset.cases)
            /\ n < Len(dataset.cases) => ~r.caseResults[n].pass

\* a stopped run: the last result fails and a later case was never called
C6_Witness ==
  /\ pc = "returned"
  /\ stopOnFailure
  /\ Len(result[1].caseResults) < Len(dataset.cases)
  /\ ~result[1].caseResults[Len(result[1].caseResults)].pass
  /\ ~ToolInvoked(Len(dataset.cases))

(***************************************************************************)
(* C7: with stopOnFailure unset or false, a failing case never aborts the  *)
(* run: no case is skipped while the run goes on, and the returned result  *)
(* holds one case result per dataset case, in dataset order, with          *)
(* caseResults[i].id = dataset.cases[i].id.                                *)
(***************************************************************************)
C7_FailureDoesNotAbort ==
  ~stopOnFailure =>
    /\ pc = "returned" =>
         /\ Len(result[1].caseResults) = Len(dataset.cases)
         /\ \A i \in 1..Len(dataset.cases) :
              result[1].caseResults[i].id = dataset.cases[i].id
    /\ pc = "rejected" => Happened("callbackThrew", Len(caseResults), "none")

\* a complete run that holds a case failed by a tool error before a case
\* failed by an expectation
C7_Witness ==
  /\ pc = "returned"
  /\ ~stopOnFailure
  /\ Len(result[1].caseResults) >= 2
  /\ ~result[1].caseResults[1].pass
  /\ Truthy(result[1].caseResults[1].error)
  /\ ~result[1].caseResults[2].pass
  /\ result[1].caseResults[2].error = Undefined

(***************************************************************************)
(* C8: for each kind in exact, schema, judge, textContains, regex, error:  *)
(* if a function is supplied for the kind and the tool call succeeds, the  *)
(* function is invoked exactly once for the case and its result is stored  *)
(* in the slot of that kind, where it takes part in the case's pass.       *)
(* Fails in the code for textContains, regex and error.                    *)
(***************************************************************************)
C8_EveryEnabledKindRuns ==
  \A i \in Processed :
    ~toolCalls[i].threw =>
      \A k \in enabled :
        /\ Invocations(i, k) = 1
        /\ k \in DOMAIN caseResults[i].expectations
        /\ ~caseResults[i].expectations[k].pass => ~caseResults[i].pass

(***************************************************************************)
(* C9: if onCaseComplete throws or rejects, runEvalDataset does not catch  *)
(* it: the call rejects with that error, no result is returned, and no     *)
(* later case is processed.                                                *)
(***************************************************************************)
C9_CallbackErrorPropagates ==
  \A i \in Processed :
    Happened("callbackThrew", i, "none") =>
      /\ pc = "rejected"
      /\ rejection # Undefined
      /\ rejection[1] \in { o.str : o \in { c \in CallbackOutcomes : c.threw } }
      /\ result = NoResult
      /\ Len(caseResults) = i
      /\ log[Len(log)] = Event("callbackThrew", i, "none")
      /\ ~ToolInvoked(i + 1)

\* the callback threw while cases were left to process
C9_Witness ==
  /\ pc = "rejected"
  /\ Len(caseResults) < Len(dataset.cases)
  /\ Happened("callbackThrew", Len(caseResults), "none")

(***************************************************************************)
(* C10: case processing is strictly sequential: the tool call of case i+1  *)
(* does not start before case i's tool call, all its expectation           *)
(* invocations, the append of its result and its callback have completed;  *)
(* the callback is invoked exactly once per processed case, the failing    *)
(* case that triggers stopOnFailure included, after the result has been    *)
(* appended.                                                               *)
(***************************************************************************)
C10_StrictlySequential ==
  /\ \A j \in 1..(Len(log) - 1) : log[j][2] <= log[j + 1][2]
  /\ \A i \in Processed : CaseLogInOrder(CaseLog(i))
  /\ \A i \in 1..Len(dataset.cases) :
       ToolInvoked(i + 1) => i \in Processed /\ CaseLogComplete(CaseLog(i))
  /\ \A j \in 1..Len(log) :
       log[j][1] \in {"push", "callbackStart"} => log[j][2] \in Processed

\* the callback has run for a failing case that stopped the run, after a
\* case with an expectation invocation was processed
C10_Witness ==
  /\ pc = "returned"
  /\ stopOnFailure
  /\ hasCallback
  /\ Len(caseResults) = 2
  /\ ~caseResults[2].pass
  /\ CallbackDone(2)
  /\ \E k \in Kinds : Invocations(1, k) = 1

(***************************************************************************)
(* JavaScript values handed to the expectation functions.                  *)
(*                                                                         *)
(* A string is a sequence of characters.  A value is a record tagged with  *)
(* its type: t is "null", "undefined", "string", "number", "array" or      *)
(* "object".                                                               *)
(***************************************************************************)
MaxTextLen == 2

MaxList == 2

Chars == {"a", "A", "b"}

\* the strings of at most MaxTextLen characters
Strings == UNION { [1..n -> Chars] : n \in 0..MaxTextLen }

\* texts of more than one line
MultiLineTexts == { <<"a", "\n", "b">>, <<"b", "\n", "A", "b">> }

JsNull == [t |-> "null"]

JsUndefined == [t |-> "undefined"]

JsString(s) == [t |-> "string", s |-> s]

\* a number; str is String(n)
JsNumber == [t |-> "number", str |-> <<"7">>]

\* elements of a content array: isObject is `c != null && typeof c ===
\* 'object'`, hasType is `'type' in c`, hasText is `'text' in c`;
\* serializable is false for an element JSON.stringify throws on (a BigInt)
TextBlock(s) ==
  [isObject |-> TRUE, hasType |-> TRUE, type |-> "text", hasText |-> TRUE,
   text |-> s, serializable |-> TRUE]

ImageBlock ==
  [isObject |-> TRUE, hasType |-> TRUE, type |-> "image", hasText |-> FALSE,
   text |-> <<>>, serializable |-> TRUE]

\* {type: 'text'} without a text field
BareTextBlock ==
  [isObject |-> TRUE, hasType |-> TRUE, type |-> "text", hasText |-> FALSE,
   text |-> <<>>, serializable |-> TRUE]

NullElement ==
  [isObject |-> FALSE, hasType |-> FALSE, type |-> "", hasText |-> FALSE,
   text |-> <<>>, serializable |-> TRUE]

BigIntElement ==
  [isObject |-> FALSE, hasType |-> FALSE, type |-> "", hasText |-> FALSE,
   text |-> <<>>, serializable |-> FALSE]

JsArray(items) == [t |-> "array", items |-> items]

\* an object with the fields the code reads; cyclic: the object refers to
\* itself through a further property
JsObject(content, structuredContent, text, isError, cyclic) ==
  [t |-> "object", content |-> content,
   structuredContent |-> structuredContent, text |-> text,
   isError |-> isError, cyclic |-> cyclic]

EmptyObject == JsObject(Undefined, Undefined, Undefined, "absent", FALSE)

CyclicObject == JsObject(Undefined, Undefined, Undefined, "absent", TRUE)

\* a function result: a returned value, or a throw
Returned(v) == [threw |-> FALSE, value |-> v]

Threw(what) == [threw |-> TRUE, value |-> what]

(***************************************************************************)
(* textUtils (src/unnamed/part_003).                                       *)
(***************************************************************************)

\* Array.prototype.join: the parts with sep between them
RECURSIVE Join(_, _)
Join(parts, sep) ==
  IF Len(parts) = 0 THEN <<>>
  ELSE IF Len(parts) = 1 THEN parts[1]
  ELSE parts[1] \o sep \o Join(Tail(parts), sep)

\* JSON.stringify of an element of an array
JsonOfElement(c) ==
  IF ~c.isObject THEN <<"null">>
  ELSE <<"{", "type", ":", c.type>>
       \o (IF c.hasText THEN <<",", "text", ":", "\"">> \o c.text \o <<"\"">>
           ELSE <<>>)
       \o <<"}">>

\* JSON.stringify: the serialization, or a TypeError for a cyclic object or
\* a BigInt
RECURSIVE JsonStringify(_)
JsonStringify(v) ==
  CASE v.t = "null" -> Returned(<<"null">>)
    [] v.t = "string" -> Returned(<<"\"">> \o v.s \o <<"\"">>)
    [] v.t = "number" -> Returned(v.str)
    [] v.t = "array" ->
         IF \E i \in 1..Len(v.items) : ~v.items[i].serializable
         THEN Threw("TypeError")
         ELSE LET elements == [i \in 1..Len(v.items) |->
                                 JsonOfElement(v.items[i])]
              IN Returned(<<"[">> \o Join(elements, <<",">>) \o <<"]">>)
    [] v.t = "object" ->
         LET field(name, opt) ==
               IF opt = Undefined \/ opt[1].t = "undefined" THEN <<>>
               ELSE << <<name, ":">> \o JsonStringify(opt[1]).value >>
             throws(opt) ==
               opt # Undefined /\ opt[1].t # "undefined"
               /\ JsonStringify(opt[1]).threw
             fields == field("content", v.content)
                       \o field("structuredContent", v.structuredContent)
                       \o field("text", v.text)
                       \o (IF v.isError = "absent" THEN <<>>
                           ELSE << <<"isError", ":", v.isError>> >>)
         IN IF v.cyclic \/ throws(v.content) \/ throws(v.structuredContent)
               \/ throws(v.text)
            THEN Threw("TypeError")
            ELSE Returned(<<"{">> \o Join(fields, <<",">>) \o <<"}">>)

\* the filter and map of lines 30-40 and 55-65: the text of the elements
\* shaped like {type: 'text', text}
IsTextPart(c) ==
  c.isObject /\ c.hasType /\ c.type = "text" /\ c.hasText

TextOf(c) == c.text

TextParts(items) ==
  LET parts == SelectSeq(items, IsTextPart)
  IN [i \in 1..Len(parts) |-> TextOf(parts[i])]

\* lines 72-88: an object without text parts in content
ExtractFromObjectFieldsContentFirst(r) ==
  IF r.content # Undefined /\ r.content[1].t = "array"
  THEN JsonStringify(r.content[1])
  ELSE IF r.structuredContent # Undefined
     /\ r.structuredContent[1].t \notin {"null", "undefined"}
  THEN IF r.structuredContent[1].t = "string"
       THEN Returned(r.structuredContent[1].s)
       ELSE JsonStringify(r.structuredContent[1])
  ELSE IF r.text # Undefined /\ r.text[1].t = "string"
  THEN Returned(r.text[1].s)
  ELSE JsonStringify(r)

ExtractFromObjectFields(r) ==
  IF r.structuredContent # Undefined
     /\ r.structuredContent[1].t \notin {"null", "undefined"}
  THEN IF r.structuredContent[1].t = "string"
       THEN Returned(r.structuredContent[1].s)
       ELSE JsonStringify(r.structuredContent[1])
  ELSE IF r.text # Undefined /\ r.text[1].t = "string"
  THEN Returned(r.text[1].s)
  ELSE JsonStringify(r)

\* extractTextFromResponse
ExtractTextFromResponse(v) ==
  IF v.t \in {"null", "undefined"} THEN Returned(<<>>)
  ELSE IF v.t = "string" THEN Returned(v.s)
  ELSE IF v.t = "array"
  THEN IF Len(TextParts(v.items)) > 0
       THEN Returned(Join(TextParts(v.items), <<"\n">>))
       ELSE JsonStringify(v)
  ELSE IF v.t = "object"
  THEN IF /\ v.content # Undefined
          /\ v.content[1].t = "array"
          /\ Len(TextParts(v.content[1].items)) > 0
       THEN Returned(Join(TextParts(v.content[1].items), <<"\n">>))
       ELSE ExtractFromObjectFields(v)
  ELSE Returned(v.str)

\* String.prototype.toLowerCase
ToLowerCase(s) == [i \in 1..Len(s) |-> IF s[i] = "A" THEN "a" ELSE s[i]]

\* String.prototype.includes
Includes(text, sub) ==
  \E i \in 0..(Len(text) - Len(sub)) :
    \A j \in 1..Len(sub) : text[i + j] = sub[j]

\* findMissingSubstrings
FindMissingSubstringsLowerTextOnly(text, substrings, caseSensitive) ==
  LET searchText == IF caseSensitive THEN text ELSE ToLowerCase(text)
      missing(substring) == ~Includes(searchText, substring)
  IN SelectSeq(substrings, missing)

FindMissingSubstrings(text, substrings, caseSensitive) ==
  LET searchText == IF caseSensitive THEN text ELSE ToLowerCase(text)
      missing(substring) ==
        ~Includes(searchText,
                  IF caseSensitive THEN substring ELSE ToLowerCase(substring))
  IN SelectSeq(substrings, missing)

\* a regular expression source: valid is false when new RegExp throws;
\* anchored is a leading ^; lit is the literal text to find
Pattern(src, valid, anchored, lit) ==
  [src |-> src, valid |-> valid, anchored |-> anchored, lit |-> lit]

Patterns ==
  { Pattern("a", TRUE, FALSE, <<"a">>),
    Pattern("^b", TRUE, TRUE, <<"b">>),
    Pattern("(", FALSE, FALSE, <<>>) }

\* positions at which a line of the text starts
LineStarts(text) ==
  {1} \cup { i \in 2..(Len(text) + 1) : text[i - 1] = "\n" }

\* new RegExp(pattern, flags).test(text), for a valid pattern; with the
\* flag m a leading ^ matches at the start of every line
RegExpTest(pattern, multiline, text) ==
  LET starts == IF ~pattern.anchored THEN 1..(Len(text) + 1)
                ELSE IF multiline THEN LineStarts(text)
                ELSE {1}
  IN \E i \in starts :
       /\ i + Len(pattern.lit) - 1 <= Len(text)
       /\ \A j \in 1..Len(pattern.lit) : text[i + j - 1] = pattern.lit[j]

\* findFailedPatterns
FindFailedPatterns(text, patterns) ==
  LET failed(pattern) ==
        IF ~pattern.valid THEN TRUE ELSE ~RegExpTest(pattern, TRUE, text)
  IN SelectSeq(patterns, failed)

(***************************************************************************)
(* Eval cases and expectation results.                                     *)
(***************************************************************************)

\* an EvalCase: its expectation directives, each optional
NoDirectives ==
  [expectedExact |-> Undefined, expectedSchemaName |-> Undefined,
   judgeConfigId |-> Undefined, expectedTextContains |-> Undefined,
   expectedRegex |-> Undefined, expectedError |-> Undefined]

\* a directive value that is one string (or pattern) or a list of them
One(x) == [isArray |-> FALSE, items |-> <<x>>]

Many(xs) == [isArray |-> TRUE, items |-> xs]

\* Array.isArray(x) ? x : [x]
AsList(x) == x.items

\* EvalExpectationResult: details is the message, with the list and the text
\* it embeds
Result(pass, msg, list, text) ==
  [pass |-> pass, details |-> [msg |-> msg, list |-> list, text |-> text]]

\* text.slice(0, 500)
PreviewLen == 500

Slice(text, n) == SubSeq(text, 1, IF Len(text) < n THEN Len(text) ELSE n)

(***************************************************************************)
(* createTextContainsExpectation (src/unnamed/part_002).                   *)
(***************************************************************************)
TextContainsExpectation(caseSensitive, evalCase, resp) ==
  IF evalCase.expectedTextContains = Undefined
  THEN Returned(Result(TRUE, "No expectedTextContains defined, skipping",
                       <<>>, <<>>))
  ELSE
    LET extracted == ExtractTextFromResponse(resp)
        expectedSubstrings == AsList(evalCase.expectedTextContains[1])
        missing == FindMissingSubstrings(extracted.value, expectedSubstrings,
                                         caseSensitive)
    IN IF extracted.threw THEN extracted
       ELSE IF Len(missing) = 0
       THEN Returned(Result(TRUE, "Text contains expected substrings",
                            <<>>, <<>>))
       ELSE Returned(Result(FALSE, "Missing substring(s)", missing,
                            Slice(extracted.value, PreviewLen)))

(***************************************************************************)
(* createRegexExpectation (src/unnamed/part_004).                          *)
(***************************************************************************)

\* lines 74-84: a failed pattern, flagged invalid when new RegExp throws
FailureDetail(pattern) == [pattern |-> pattern.src, invalid |-> ~pattern.valid]

RegexExpectation(evalCase, resp) ==
  IF evalCase.expectedRegex = Undefined
  THEN Returned(Result(TRUE, "No expectedRegex defined, skipping", <<>>, <<>>))
  ELSE
    LET extracted == ExtractTextFromResponse(resp)
        patterns == AsList(evalCase.expectedRegex[1])
        failed == FindFailedPatterns(extracted.value, patterns)
    IN IF extracted.threw THEN extracted
       ELSE IF Len(failed) = 0
       THEN Returned(Result(TRUE, "Text matches expected patterns",
                            <<>>, <<>>))
       ELSE Returned(Result(FALSE, "Failed to match pattern(s)",
                            [i \in 1..Len(failed) |-> FailureDetail(failed[i])],
                            Slice(extracted.value, PreviewLen)))

(***************************************************************************)
(* createErrorExpectation (src/evals/expectations/errorExpectation.ts).    *)
(* expectedError is true, another non-string value, a string or a list.    *)
(***************************************************************************)
ExpectedTrue == [kind |-> "true", isArray |-> FALSE, items |-> <<>>]

ExpectedFalse == [kind |-> "false", isArray |-> FALSE, items |-> <<>>]

ExpectedText(x) == [kind |-> "text", isArray |-> x.isArray, items |-> x.items]

\* result?.isError === true
HasErrorTruthy(resp) == resp.t = "object" /\ resp.isError \in {"true", "1"}

HasError(resp) == resp.t = "object" /\ resp.isError = "true"

ErrorSkipResult ==
  Returned(Result(TRUE, "No error expectation defined, skipping", <<>>, <<>>))

ErrorExpectationBody(evalCase, resp) ==
  IF ~HasError(resp)
  THEN Returned(Result(FALSE, "Expected tool to return isError: true",
                       <<>>, <<>>))
  ELSE IF evalCase.expectedError[1].kind = "true"
  THEN Returned(Result(TRUE, "Tool correctly returned an error as expected",
                       <<>>, <<>>))
  ELSE IF evalCase.expectedError[1].kind = "text"
  THEN LET errorText == ExtractTextFromResponse(resp)
           patterns == AsList(evalCase.expectedError[1])
           missing == FindMissingSubstrings(errorText.value, patterns, FALSE)
       IN IF errorText.threw THEN errorText
          ELSE IF Len(missing) > 0
          THEN Returned(Result(FALSE, "Error message missing expected content",
                               missing, Slice(errorText.value, PreviewLen)))
          ELSE Returned(Result(TRUE,
                 "Tool returned expected error with matching message",
                 <<>>, <<>>))
  ELSE Returned(Result(TRUE, "Tool correctly returned an error as expected",
                       <<>>, <<>>))

\* the check of isError made before the check of the directive
ErrorExpectationErrorFirst(evalCase, resp) ==
  IF ~HasError(resp)
  THEN Returned(Result(FALSE, "Expected tool to return isError: true",
                       <<>>, <<>>))
  ELSE IF evalCase.expectedError = Undefined THEN ErrorSkipResult
  ELSE ErrorExpectationBody(evalCase, resp)

ErrorExpectation(evalCase, resp) ==
  IF evalCase.expectedError = Undefined THEN ErrorSkipResult
  ELSE ErrorExpectationBody(evalCase, resp)

(***************************************************************************)
(* Registries indexed by name: dataset.schemas and judgeConfigs.           *)
(***************************************************************************)

\* names a case can give; "constructor" is a property every object inherits
Names == {"", "known", "zero", "missing", "constructor"}

InheritedNames == {"constructor"}

\* registry[name]: the own entry, else the inherited member, else undefined
Lookup(registry, name, inherited) ==
  IF name \in DOMAIN registry THEN Some(registry[name])
  ELSE IF name \in InheritedNames THEN Some(inherited)
  ELSE Undefined

\* !value, for an optional string
Falsy(opt) == opt = Undefined \/ opt[1] = ""

(***************************************************************************)
(* createSchemaExpectation (src/unnamed/part_005).                         *)
(***************************************************************************)

\* a schema: accepts says what parse does: "strings" accepts a string and
\* throws a ZodError otherwise, "none" is no schema at all (parse is not a
\* function: the call throws a TypeError)
StringSchema == [accepts |-> "strings"]

NotASchema == [accepts |-> "none"]

\* dataset.schemas: undefined, or a mapping
SchemaRegistries ==
  { Undefined,
    Some([n \in {} |-> StringSchema]),
    Some([n \in {"known"} |-> StringSchema]) }

\* schema.parse(response): returns, or throws
SchemaParse(schema, resp) ==
  IF schema.accepts = "none" THEN Threw("TypeError")
  ELSE IF resp.t = "string" THEN Returned(resp)
  ELSE Threw("ZodError")

SchemaExpectation(schemas, evalCase, resp) ==
  IF Falsy(evalCase.expectedSchemaName)
  THEN Returned(Result(TRUE, "No expectedSchemaName defined, skipping",
                       <<>>, <<>>))
  ELSE
    LET name == evalCase.expectedSchemaName[1]
        schema == IF schemas = Undefined THEN Undefined
                  ELSE Lookup(schemas[1], name, NotASchema)
    IN IF schema = Undefined
       THEN Returned(Result(FALSE, "Schema not found in dataset.schemas",
                            <<name>>, <<>>))
       ELSE LET parsed == SchemaParse(schema[1], resp)
            IN IF ~parsed.threw
               THEN Returned(Result(TRUE, "Response conforms to schema",
                                    <<name>>, <<>>))
               ELSE IF parsed.value = "ZodError"
               THEN Returned(Result(FALSE, "Schema validation failed",
                                    <<name>>, <<>>))
               ELSE Returned(Result(FALSE,
                      "Unexpected error during schema validation",
                      <<parsed.value>>, <<>>))

(***************************************************************************)
(* createJudgeExpectation (src/evals/datasetLoader.test.ts, 172-278).      *)
(* Scores and thresholds are in hundredths.                                *)
(***************************************************************************)
DefaultPassingThreshold == 70

JudgeConfig(reference, passingThreshold) ==
  [rubric |-> "rubric", reference |-> reference,
   passingThreshold |-> passingThreshold]

\* the member every object inherits: it has none of the fields of a config
InheritedMember == JudgeConfig(Undefined, Undefined)

JudgeConfigs ==
  [n \in {"known", "zero"} |->
     IF n = "known" THEN JudgeConfig(Some(JsString(<<"a">>)), Undefined)
     ELSE JudgeConfig(Undefined, Some(0))]

\* what awaiting judgeClient.evaluate gives: {pass, score?}, or a throw
JudgeOutcomes ==
  { Threw("Error: judge down") }
  \cup { Returned([pass |-> p, score |-> sc]) :
           p \in BOOLEAN,
           sc \in {Undefined, Some(0), Some(69), Some(70), Some(100)} }

\* config.passingThreshold ?? 0.7
ThresholdOrDefault(config) ==
  IF config.passingThreshold # Undefined /\ config.passingThreshold[1] # 0
  THEN config.passingThreshold[1]
  ELSE DefaultPassingThreshold

Threshold(config) ==
  IF config.passingThreshold # Undefined THEN config.passingThreshold[1]
  ELSE DefaultPassingThreshold

\* result.score ?? (result.pass ? 1.0 : 0.0)
Score(judged) ==
  IF judged.score # Undefined THEN judged.score[1]
  ELSE IF judged.pass THEN 100 ELSE 0

\* evaluated is the outcome of the awaited judgeClient.evaluate, used only
\* when the function gets to call it
JudgeExpectation(judgeClient, evalCase, resp, evaluated) ==
  IF Falsy(evalCase.judgeConfigId)
  THEN Returned(Result(TRUE, "No judgeConfigId defined, skipping", <<>>, <<>>))
  ELSE IF ~judgeClient
  THEN Returned(Result(FALSE, "No judgeClient available in context",
                       <<>>, <<>>))
  ELSE
    LET name == evalCase.judgeConfigId[1]
        config == Lookup(JudgeConfigs, name, InheritedMember)
    IN IF config = Undefined
       THEN Returned(Result(FALSE, "Judge config not found", <<name>>, <<>>))
       ELSE IF evaluated.threw
       THEN Returned(Result(FALSE, "Judge evaluation failed",
                            <<evaluated.value>>, <<>>))
       ELSE LET threshold == Threshold(config[1])
                score == Score(evaluated.value)
            IN Returned(Result(score >= threshold, "Judge",
                               <<score, threshold>>, <<>>))

\* whether the function gets to call judgeClient.evaluate
JudgeEvaluates(judgeClient, evalCase) ==
  /\ ~Falsy(evalCase.judgeConfigId)
  /\ judgeClient
  /\ Lookup(JudgeConfigs, evalCase.judgeConfigId[1], InheritedMember)
       # Undefined

\* the reference handed to the judge: expectedExact, else config.reference
JudgeReference(evalCase) ==
  IF evalCase.expectedExact # Undefined THEN evalCase.expectedExact
  ELSE Lookup(JudgeConfigs, evalCase.judgeConfigId[1], InheritedMember)[1]
         .reference

(***************************************************************************)
(* The exact expectation: deep equality of the response and expectedExact, *)
(* skipped when the case has no expectedExact.                             *)
(***************************************************************************)
ExactExpectation(evalCase, resp) ==
  IF evalCase.expectedExact = Undefined
  THEN Returned(Result(TRUE, "No expectedExact defined, skipping", <<>>, <<>>))
  ELSE Returned(Result(resp = evalCase.expectedExact[1],
                       "Exact comparison", <<>>, <<>>))

(***************************************************************************)
(* The inputs of the expectation layer.                                    *)
(***************************************************************************)

\* the sequences of at most n elements of S
SeqsUpTo(S, n) == UNION { [1..k -> S] : k \in 0..n }

Texts == Strings \cup MultiLineTexts

Elements ==
  { TextBlock(<<"a">>), TextBlock(<<"A", "b">>), ImageBlock, BareTextBlock,
    NullElement, BigIntElement }

Arrays == { JsArray(items) : items \in SeqsUpTo(Elements, MaxList) }

SampleArrays ==
  { JsArray(<<>>),
    JsArray(<<TextBlock(<<"a">>)>>),
    JsArray(<<TextBlock(<<"A">>), ImageBlock, TextBlock(<<"b">>)>>),
    JsArray(<<BigIntElement>>) }

Primitives ==
  { JsNull, JsUndefined, JsNumber } \cup { JsString(s) : s \in Texts }

\* values of the fields structuredContent and text of an object
FieldValues ==
  { JsNull, JsString(<<"b">>), JsNumber, EmptyObject, CyclicObject }

Objects ==
  { JsObject(content, structuredContent, text, isError, cyclic) :
      content \in { Undefined, Some(JsString(<<"a">>)) }
                    \cup { Some(a) : a \in Arrays },
      structuredContent \in { Undefined } \cup { Some(v) : v \in FieldValues },
      text \in { Undefined, Some(JsString(<<"a">>)), Some(JsNumber) },
      isError \in { "absent", "true" },
      cyclic \in BOOLEAN }

\* the values extractTextFromResponse is applied to
Responses == Primitives \cup Arrays \cup Objects

\* the responses handed to the text, regex and error expectations
ExpectationResponses ==
  Primitives \cup SampleArrays
  \cup { JsObject(content, Undefined, text, isError, cyclic) :
           content \in { Undefined } \cup { Some(a) : a \in SampleArrays },
           text \in { Undefined, Some(JsString(<<"A", "b">>)) },
           isError \in { "absent", "true", "false", "1" },
           cyclic \in BOOLEAN }

\* the responses handed to the exact, schema and judge expectations
SampleResponses ==
  { JsNull, JsUndefined, JsString(<<>>), JsString(<<"a">>), JsNumber,
    JsArray(<<>>), EmptyObject }

Needles == { <<"a">>, <<"A", "b">>, <<"b", "b">> }

\* a directive that is one value of S or a list of values of S
OneOrMany(S) ==
  { One(x) : x \in S } \cup { Many(xs) : xs \in SeqsUpTo(S, MaxList) }

Directives == DOMAIN NoDirectives

DirectiveValues(f) ==
  CASE f = "expectedExact" -> SampleResponses
    [] f = "expectedSchemaName" -> Names
    [] f = "judgeConfigId" -> Names
    [] f = "expectedTextContains" -> OneOrMany(Needles)
    [] f = "expectedRegex" -> OneOrMany(Patterns)
    [] f = "expectedError" ->
         { ExpectedTrue, ExpectedFalse }
         \cup { ExpectedText(x) : x \in OneOrMany(Needles) }

\* a case that declares every directive
FullCase ==
  [expectedExact |-> Some(JsString(<<"a">>)),
   expectedSchemaName |-> Some("known"),
   judgeConfigId |-> Some("known"),
   expectedTextContains |-> Some(One(<<"a">>)),
   expectedRegex |-> Some(One(Pattern("a", TRUE, FALSE, <<"a">>))),
   expectedError |-> Some(ExpectedTrue)]

\* the cases for the function of directive f: f alone with each of its
\* values, no directive, every directive, and every directive but f
CasesFor(f) ==
  { [NoDirectives EXCEPT ![f] = Some(v)] : v \in DirectiveValues(f) }
  \cup { NoDirectives, FullCase, [FullCase EXCEPT ![f] = Undefined] }

\* the cases run through the per-case body of runEvalDataset
RunCases ==
  { NoDirectives, FullCase,
    [NoDirectives EXCEPT !.expectedSchemaName = Some("missing")],
    [NoDirectives EXCEPT !.judgeConfigId = Some("missing")],
    [NoDirectives EXCEPT !.expectedExact = Some(JsNumber)] }

\* results of mcp.callTool whose content and structuredContent are values
JsToolResults ==
  { [content |-> JsArray(<<TextBlock(<<"a">>)>>),
     structuredContent |-> Undefined, isError |-> Undefined],
    [content |-> JsArray(<<>>),
     structuredContent |-> Some(JsString(<<"a">>)), isError |-> Undefined] }

JsToolOutcomes ==
  { [threw |-> FALSE, value |-> r, err |-> Undefined] : r \in JsToolResults }
  \cup
  { [threw |-> TRUE, value |-> Undefined, err |-> Some(e)] : e \in ThrownValues }

\* one call: the function, and the arguments and context it reads
Call(fn, evalCase, resp, caseSensitive, judgeClient, schemas, en) ==
  [fn |-> fn, evalCase |-> evalCase, response |-> resp,
   caseSensitive |-> caseSensitive, judgeClient |-> judgeClient,
   schemas |-> schemas, enabled |-> en]

\* the functions of the layer that a call applies
Fns ==
  { "extract", "textContains", "regex", "error", "schema", "judge", "exact",
    "runCase", "errorOnToolResult" }

\* the calls of function fn
CallsOf(fn) ==
  CASE fn = "extract" ->
         { Call("extract", NoDirectives, r, TRUE, FALSE, Undefined, {}) :
             r \in Responses }
    [] fn = "textContains" ->
         { Call("textContains", c, r, cs, FALSE, Undefined, {}) :
             c \in CasesFor("expectedTextContains"),
             r \in ExpectationResponses, cs \in BOOLEAN }
    [] fn = "regex" ->
         { Call("regex", c, r, TRUE, FALSE, Undefined, {}) :
             c \in CasesFor("expectedRegex"), r \in ExpectationResponses }
    [] fn = "error" ->
         { Call("error", c, r, TRUE, FALSE, Undefined, {}) :
             c \in CasesFor("expectedError"), r \in ExpectationResponses }
    [] fn = "schema" ->
         { Call("schema", c, r, TRUE, jc, sch, {}) :
             c \in CasesFor("expectedSchemaName"), r \in SampleResponses,
             jc \in BOOLEAN, sch \in SchemaRegistries }
    [] fn = "judge" ->
         { Call("judge", c, r, TRUE, jc, sch, {}) :
             c \in CasesFor("judgeConfigId"), r \in SampleResponses,
             jc \in BOOLEAN, sch \in { Undefined } }
    [] fn = "exact" ->
         { Call("exact", c, r, TRUE, FALSE, Undefined, {}) :
             c \in CasesFor("expectedExact"), r \in SampleResponses }
    [] fn = "runCase" ->
         { Call("runCase", c, JsUndefined, TRUE, jc, sch, en) :
             c \in RunCases, jc \in BOOLEAN, sch \in SchemaRegistries,
             en \in EnabledSets }
    [] fn = "errorOnToolResult" ->
         { Call("errorOnToolResult",
                [NoDirectives EXCEPT !.expectedError = Some(ExpectedTrue)],
                JsObject(Some(content), structuredContent, Undefined, isError,
                         FALSE),
                TRUE, FALSE, Undefined, {}) :
             content \in SampleArrays,
             structuredContent \in
               { Undefined, Some(JsNull), Some(JsString(<<"b">>)),
                 Some(JsObject(Undefined, Undefined, Undefined, "true",
                               FALSE)) },
             isError \in { "absent", "true", "false" } }

(***************************************************************************)
(* One case through the loop body of runEvalDataset (lines 189-272), with  *)
(* the expectation functions above in options.expectations.                *)
(***************************************************************************)

\* what the runner's try/catch sees of an awaited expectation function
AsOutcome(out) ==
  IF out.threw THEN [threw |-> TRUE, pass |-> FALSE, str |-> out.value]
  ELSE [threw |-> FALSE, pass |-> out.value.pass, str |-> ""]

RunCase(c, tool, evaluated) ==
  LET err == IF tool.threw THEN Some(ErrorMessage(tool.err[1])) ELSE Undefined
      resp == IF tool.threw THEN Undefined ELSE ResponseOf(tool.value)
      value == IF resp = Undefined THEN JsUndefined ELSE resp[1]
      outcome(k) ==
        CASE k = "exact" -> ExactExpectation(c.evalCase, value)
          [] k = "schema" -> SchemaExpectation(c.schemas, c.evalCase, value)
          [] k = "judge" ->
               JudgeExpectation(c.judgeClient, c.evalCase, value, evaluated)
      invoked == IF Truthy(err) THEN {}
                 ELSE { RunnerKinds[p] : p \in 1..Len(RunnerKinds) }
                      \cap c.enabled
      expRes == [k \in invoked |-> SlotOf(k, AsOutcome(outcome(k)))]
  IN [toolThrew |-> tool.threw, error |-> err, response |-> resp,
      expectations |-> expRes, pass |-> CasePass(err, expRes)]

(***************************************************************************)
(* The expectation layer, one call at a time: a function of the layer is   *)
(* applied once to its arguments, and what it returns or throws is kept.   *)
(***************************************************************************)
InitExpect ==
  /\ \E fn \in Fns : call \in CallsOf(fn)
  /\ returned = Undefined
  /\ dataset = [name |-> "dataset", cases |-> <<>>]
  /\ enabled = {}
  /\ stopOnFailure = FALSE
  /\ hasCallback = FALSE
  /\ pc = "none"
  /\ idx = 0
  /\ response = Undefined
  /\ error = Undefined
  /\ expectationResults = EmptyExpectations
  /\ caseResults = <<>>
  /\ result = NoResult
  /\ rejection = Undefined
  /\ toolCalls = <<>>
  /\ log = <<>>

\* what a call gave: out is the result returned or the value thrown;
\* evaluated is the outcome of judgeClient.evaluate when it was awaited
Gave(out, evaluated) == Some([out |-> out, evaluated |-> evaluated])

Extract ==
  /\ call.fn = "extract"
  /\ returned = Undefined
  /\ returned' = Gave(ExtractTextFromResponse(call.response), Undefined)
  /\ UNCHANGED <<call, runnerVars>>

ApplyTextContains ==
  /\ call.fn = "textContains"
  /\ returned = Undefined
  /\ returned' = Gave(TextContainsExpectation(call.caseSensitive,
                                              call.evalCase, call.response),
                      Undefined)
  /\ UNCHANGED <<call, runnerVars>>

ApplyRegex ==
  /\ call.fn = "regex"
  /\ returned = Undefined
  /\ returned' = Gave(RegexExpectation(call.evalCase, call.response),
                      Undefined)
  /\ UNCHANGED <<call, runnerVars>>

ApplyError ==
  /\ call.fn = "error"
  /\ returned = Undefined
  /\ returned' = Gave(ErrorExpectation(call.evalCase, call.response),
                      Undefined)
  /\ UNCHANGED <<call, runnerVars>>

ApplySchema ==
  /\ call.fn = "schema"
  /\ returned = Undefined
  /\ returned' = Gave(SchemaExpectation(call.schemas, call.evalCase,
                                        call.response), Undefined)
  /\ UNCHANGED <<call, runnerVars>>

\* the awaited judgeClient.evaluate, when the function gets to it, resolves
\* or rejects
ApplyJudge ==
  /\ call.fn = "judge"
  /\ returned = Undefined
  /\ IF JudgeEvaluates(call.judgeClient, call.evalCase)
     THEN \E evaluated \in JudgeOutcomes :
            returned' = Gave(JudgeExpectation(call.judgeClient, call.evalCase,
                                              call.response, evaluated),
                             Some(evaluated))
     ELSE returned' = Gave(JudgeExpectation(call.judgeClient, call.evalCase,
                                            call.response, Threw("unused")),
                           Undefined)
  /\ UNCHANGED <<call, runnerVars>>

ApplyExact ==
  /\ call.fn = "exact"
  /\ returned = Undefined
  /\ returned' = Gave(ExactExpectation(call.evalCase, call.response),
                      Undefined)
  /\ UNCHANGED <<call, runnerVars>>

\* the awaited tool call resolves or rejects, then the expectations run
ApplyRunCase ==
  /\ call.fn = "runCase"
  /\ returned = Undefined
  /\ \E tool \in JsToolOutcomes :
       \E evaluated \in
            IF ~tool.threw /\ "judge" \in call.enabled
               /\ JudgeEvaluates(call.judgeClient, call.evalCase)
            THEN JudgeOutcomes ELSE { Threw("unused") } :
         returned' = Gave(Returned(RunCase(call, tool, evaluated)),
                          Undefined)
  /\ UNCHANGED <<call, runnerVars>>

\* line 200: what the runner hands to the expectation functions of the
\* result of the tool call: result.structuredContent ?? result.content
HandedResponse(toolResult) ==
  IF toolResult.structuredContent # Undefined
     /\ toolResult.structuredContent[1].t \notin {"null", "undefined"}
  THEN toolResult.structuredContent[1]
  ELSE toolResult.content[1]

\* the error expectation applied to what the runner hands on of the result
\* of a tool call; call.response is that result
ApplyErrorToToolResult ==
  /\ call.fn = "errorOnToolResult"
  /\ returned = Undefined
  /\ returned' = Gave(ErrorExpectation(call.evalCase,
                                       HandedResponse(call.response)),
                      Undefined)
  /\ UNCHANGED <<call, runnerVars>>

NextExpect ==
  \/ Extract
  \/ ApplyTextContains
  \/ ApplyRegex
  \/ ApplyError
  \/ ApplySchema
  \/ ApplyJudge
  \/ ApplyExact
  \/ ApplyRunCase
  \/ ApplyErrorToToolResult

SpecExpect == InitExpect /\ [][NextExpect]_vars

\* the call of function fn has returned or thrown
Done(fn) == call.fn = fn /\ returned # Undefined

\* the call of function fn has returned a result
DoneReturned(fn) == Done(fn) /\ ~returned[1].out.threw

\* the result the call returned
Out == returned[1].out.value

(***************************************************************************)
(* Claims about the expectation layer.                                     *)
(***************************************************************************)

\* C11: a case that declares no directive, run through the loop body of
\* runEvalDataset with any subset of the expectation functions enabled:
\* every invoked expectation has pass = true, and the case passes if and
\* only if the tool call did not throw.
C11_NoDirectivePassIffToolReturned ==
  (Done("runCase") /\ call.evalCase = NoDirectives) =>
    /\ \A k \in DOMAIN Out.expectations : Out.expectations[k].pass
    /\ Out.pass <=> ~Out.toolThrew

\* the directive each expectation function answers to
DirectiveOf(fn) ==
  CASE fn = "exact" -> "expectedExact"
    [] fn = "schema" -> "expectedSchemaName"
    [] fn = "judge" -> "judgeConfigId"
    [] fn = "textContains" -> "expectedTextContains"
    [] fn = "regex" -> "expectedRegex"
    [] fn = "error" -> "expectedError"

\* the details of the skip result of each function
SkipMessage(fn) ==
  CASE fn = "schema" -> "No expectedSchemaName defined, skipping"
    [] fn = "judge" -> "No judgeConfigId defined, skipping"
    [] fn = "textContains" -> "No expectedTextContains defined, skipping"
    [] fn = "regex" -> "No expectedRegex defined, skipping"
    [] fn = "error" -> "No error expectation defined, skipping"

\* the directive of function fn, as the case of the call declares it
Declared(fn) == call.evalCase[DirectiveOf(fn)]

\* the call returned the skip result of function fn
Skipped(fn) ==
  /\ DoneReturned(fn)
  /\ Out.pass
  /\ Out.details.msg = SkipMessage(fn)

\* C12: skip-if-absent: each of the schema, text-contains, regex, error and
\* judge functions, called on a case that does not declare its directive,
\* returns pass = true with its skip message, whatever the response, the
\* other directives, the judge client and the dataset's schemas.
C12_SkipIfAbsent ==
  \A fn \in {"schema", "textContains", "regex", "error", "judge"} :
    (Done(fn) /\ Declared(fn) = Undefined) => Skipped(fn)

\* the error function skips a case that declares every other directive, on
\* a response without isError: true
C12_Witness ==
  /\ Skipped("error")
  /\ call.evalCase = [FullCase EXCEPT !.expectedError = Undefined]
  /\ ~HasError(call.response)

\* C13: a schema name that is no key of dataset.schemas, or a judge config
\* id that is no key of the judge configurations, makes the function return
\* pass = false instead of throwing, and the loop body of the runner still
\* produces a case result.
C13_ConfigurationFailuresReported ==
  /\ ( /\ Done("schema")
       /\ Declared("schema") # Undefined
       /\ \/ call.schemas = Undefined
          \/ Declared("schema")[1] \notin DOMAIN call.schemas[1] )
     => (DoneReturned("schema") /\ ~Out.pass)
  /\ ( /\ Done("judge")
       /\ Declared("judge") # Undefined
       /\ Declared("judge")[1] \notin DOMAIN JudgeConfigs )
     => (DoneReturned("judge") /\ ~Out.pass)
  /\ Done("runCase") => DoneReturned("runCase")

\* C14: a case whose judgeConfigId is present is never given the skip
\* result, and without a judge client the result is pass = false.
C14_JudgeNeverSilentlySkipped ==
  (Done("judge") /\ Declared("judge") # Undefined) =>
    /\ ~Skipped("judge")
    /\ ~call.judgeClient => (DoneReturned("judge") /\ ~Out.pass)

\* C15: when judgeClient.evaluate returned, the judge expectation passes if
\* and only if score >= threshold; the threshold is the configuration's
\* passingThreshold, 0.7 when it has none (0 is a threshold); the score is
\* the returned score when there is one, else 1.0 for pass = true and 0.0
\* for pass = false.  Scores are in hundredths.
C15_JudgeThreshold ==
  ( /\ Done("judge")
    /\ returned[1].evaluated # Undefined
    /\ ~returned[1].evaluated[1].threw ) =>
    LET judged == returned[1].evaluated[1].value
        id == Declared("judge")[1]
        config == IF id \in DOMAIN JudgeConfigs THEN JudgeConfigs[id]
                  ELSE InheritedMember
        threshold == IF config.passingThreshold = Undefined THEN 70
                     ELSE config.passingThreshold[1]
        score == IF judged.score # Undefined THEN judged.score[1]
                 ELSE IF judged.pass THEN 100 ELSE 0
    IN /\ DoneReturned("judge")
       /\ Out.pass <=> (score >= threshold)

\* the judge returned pass = false with score 0 and the configuration's
\* threshold is 0: the expectation passes
C15_Witness ==
  /\ DoneReturned("judge")
  /\ Declared("judge") = Some("zero")
  /\ returned[1].evaluated = Some(Returned([pass |-> FALSE, score |-> Some(0)]))
  /\ Out.pass

\* the text extracted from the response of the call
ExtractedText == ExtractTextFromResponse(call.response).value

\* substring sub occurs in text, both lower-cased unless caseSensitive
Occurs(sub, text, caseSensitive) ==
  IF caseSensitive THEN Includes(text, sub)
  ELSE Includes(ToLowerCase(text), ToLowerCase(sub))

C17_RegexNeverThrows ==
  (Done("regex") /\ Declared("regex") # Undefined) =>
    /\ DoneReturned("regex")
    /\ LET patterns == Declared("regex")[1].items
           matches(p) == p.valid /\ RegExpTest(p, TRUE, ExtractedText)
       IN /\ Out.pass <=> \A i \in 1..Len(patterns) : matches(patterns[i])
          /\ \A i \in 1..Len(patterns) :
               ~patterns[i].valid =>
                 /\ ~Out.pass
                 /\ \E j \in 1..Len(Out.details.list) :
                      Out.details.list[j] =
                        [pattern |-> patterns[i].src, invalid |-> TRUE]

C19_ExtractorTotal ==
  Done("extract") => ~returned[1].out.threw

\* the object responses with an array in the field content
HasContentArray(v) ==
  v.t = "object" /\ v.content # Undefined /\ v.content[1].t = "array"

\* C20: for an object response with an array field content, the extractor
\* gives what it gives for that array, whatever structuredContent and text
\* are.
C20_ContentArrayRuleApplied ==
  (Done("extract") /\ HasContentArray(call.response)) =>
    returned[1].out = ExtractTextFromResponse(call.response.content[1])

\* C20, amended: for an object response with an array field content that
\* holds at least one text block, the extractor gives what it gives for that
\* array, whatever structuredContent and text are; when the array holds no
\* text block the field is passed over: the result is that of the same
\* object without content when structuredContent is non-null or text is a
\* string, and otherwise the JSON serialization of the whole object.
C20_ContentTextBlocksWin ==
  (Done("extract") /\ HasContentArray(call.response)) =>
    LET r == call.response
        blocks == SelectSeq(r.content[1].items, IsTextPart)
        nonNull(opt) == opt # Undefined /\ opt[1].t \notin {"null", "undefined"}
        readsFields == nonNull(r.structuredContent)
                       \/ (r.text # Undefined /\ r.text[1].t = "string")
    IN IF Len(blocks) > 0
       THEN returned[1].out = ExtractTextFromResponse(r.content[1])
       ELSE IF readsFields
       THEN returned[1].out =
              ExtractTextFromResponse([r EXCEPT !.content = Undefined])
       ELSE returned[1].out = JsonStringify(r)

\* an object with a text block in content and a structuredContent: the text
\* of the block is extracted
C20_Witness ==
  /\ Done("extract")
  /\ HasContentArray(call.response)
  /\ call.response.content = Some(JsArray(<<TextBlock(<<"a">>)>>))
  /\ call.response.structuredContent = Some(JsString(<<"b">>))
  /\ returned[1].out = Returned(<<"a">>)

(***************************************************************************)
(* The dataset loader (src/evals/datasetLoader.ts) and the validation of   *)
(* serialized datasets (EvalCaseSchema, EvalDatasetSchema).                *)
(***************************************************************************)

\* a case of a serialized dataset; args is undefined when the case has none
RawCase(id, toolName, args, directives) ==
  [id |-> id, toolName |-> toolName, args |-> args, directives |-> directives]

RawCases ==
  { RawCase(id, "tool", Some("args"), d) :
      id \in {"case-a", "case-b"},
      d \in { NoDirectives, FullCase,
              [NoDirectives EXCEPT !.expectedError = Some(ExpectedTrue)] } }
  \cup { RawCase("", "tool", Some("args"), NoDirectives),
         RawCase("case-a", "", Some("args"), NoDirectives),
         RawCase("case-a", "tool", Undefined, NoDirectives) }

\* a value handed to the loader: an object with name, cases and possibly a
\* schemas field, or a value that is no object
RawDataset(name, cases, schemas) ==
  [isObject |-> TRUE, name |-> name, cases |-> cases, schemas |-> schemas]

NotAnObject ==
  [isObject |-> FALSE, name |-> Undefined, cases |-> Undefined,
   schemas |-> Undefined]

\* what the schemas field of a serialized dataset can hold
PersistedSchemas == [n \in {"known"} |-> NotASchema]

RawDatasets ==
  { NotAnObject }
  \cup { RawDataset(Some(name), Some(cases), schemas) :
           name \in {"", "dataset"},
           cases \in SeqsUpTo(RawCases, MaxCases),
           schemas \in { Undefined, Some(PersistedSchemas) } }

\* LoadDatasetOptions: schemas?, validate?
LoadOptions ==
  [schemas : SchemaRegistries, validate : { Undefined, Some(TRUE), Some(FALSE) }]

\* EvalCaseSchema accepts the case
CaseValid(c) == c.id # "" /\ c.toolName # "" /\ c.args # Undefined

\* EvalCaseSchema.parse of an accepted case: the keys of the schema are kept,
\* every other key is dropped
ParsedCase(c) == [c EXCEPT !.directives.expectedError = Undefined]

\* validateEvalDataset: EvalDatasetSchema.parse(dataset)
ValidateEvalDataset(data) ==
  IF /\ data.isObject
     /\ data.name # Undefined /\ data.name[1] # ""
     /\ data.cases # Undefined /\ Len(data.cases[1]) >= 1
     /\ \A i \in 1..Len(data.cases[1]) : CaseValid(data.cases[1][i])
  THEN Returned([data EXCEPT
                   !.cases = Some([i \in 1..Len(data.cases[1]) |->
                                     ParsedCase(data.cases[1][i])]),
                   !.schemas = Undefined])
  ELSE Threw([kind |-> "ZodError", message |-> "validation"])

\* const { schemas, validate = true } = options
ValidateOptionDefaultOff(opts) ==
  IF opts.validate = Undefined THEN FALSE ELSE opts.validate[1]

ValidateOption(opts) ==
  IF opts.validate = Undefined THEN TRUE ELSE opts.validate[1]

\* schemas ?? {}
SchemasOrEmpty(opts) ==
  IF opts.schemas = Undefined THEN [n \in {} |-> StringSchema]
  ELSE opts.schemas[1]

\* { ...serializedDataset, schemas: schemas ?? {} }
WithSchemasInputFirst(serialized, opts) ==
  [serialized EXCEPT
     !.isObject = TRUE,
     !.schemas = IF serialized.schemas # Undefined THEN serialized.schemas
                 ELSE Some(SchemasOrEmpty(opts))]

WithSchemas(serialized, opts) ==
  [serialized EXCEPT !.isObject = TRUE,
                     !.schemas = Some(SchemasOrEmpty(opts))]

\* loadEvalDatasetFromObject
LoadEvalDatasetFromObject(data, opts) ==
  LET serialized == IF ValidateOption(opts) THEN ValidateEvalDataset(data)
                    ELSE Returned(data)
  IN IF serialized.threw THEN serialized
     ELSE Returned(WithSchemas(serialized.value, opts))

\* a file: readFile rejects, or gives a text that JSON.parse rejects with a
\* SyntaxError, or a text that parses to a value
Files ==
  { [readable |-> FALSE, parseable |-> FALSE, value |-> NotAnObject],
    [readable |-> TRUE, parseable |-> FALSE, value |-> NotAnObject] }
  \cup { [readable |-> TRUE, parseable |-> TRUE, value |-> d] :
           d \in RawDatasets }

\* lines 65-72: a SyntaxError is replaced, any other error is thrown on
RethrowAllAsParseError(err) ==
  Threw([kind |-> "Error", message |-> "Failed to parse JSON from <path>"])

Rethrow(err) ==
  IF err.kind = "SyntaxError"
  THEN Threw([kind |-> "Error", message |-> "Failed to parse JSON from <path>"])
  ELSE Threw(err)

\* loadEvalDataset
LoadEvalDataset(file, opts) ==
  IF ~file.readable
  THEN Rethrow([kind |-> "ENOENT", message |-> "no such file"])
  ELSE IF ~file.parseable
  THEN Rethrow([kind |-> "SyntaxError", message |-> "Unexpected token"])
  ELSE LET loaded == LoadEvalDatasetFromObject(file.value, opts)
       IN IF loaded.threw THEN Rethrow(loaded.value) ELSE loaded

(***************************************************************************)
(* The loader, one call at a time.                                         *)
(***************************************************************************)
LoadFns == { "loadEvalDatasetFromObject", "loadEvalDataset" }

LoadCallsOf(fn) ==
  CASE fn = "loadEvalDatasetFromObject" ->
         { [fn |-> fn, data |-> d, options |-> o] :
             d \in RawDatasets, o \in LoadOptions }
    [] fn = "loadEvalDataset" ->
         { [fn |-> fn, file |-> f, options |-> o] :
             f \in Files, o \in LoadOptions }

InitLoad ==
  /\ \E fn \in LoadFns : call \in LoadCallsOf(fn)
  /\ returned = Undefined
  /\ dataset = [name |-> "dataset", cases |-> <<>>]
  /\ enabled = {}
  /\ stopOnFailure = FALSE
  /\ hasCallback = FALSE
  /\ pc = "none"
  /\ idx = 0
  /\ response = Undefined
  /\ error = Undefined
  /\ expectationResults = EmptyExpectations
  /\ caseResults = <<>>
  /\ result = NoResult
  /\ rejection = Undefined
  /\ toolCalls = <<>>
  /\ log = <<>>

LoadFromObject ==
  /\ call.fn = "loadEvalDatasetFromObject"
  /\ returned = Undefined
  /\ returned' = Gave(LoadEvalDatasetFromObject(call.data, call.options),
                      Undefined)
  /\ UNCHANGED <<call, runnerVars>>

\* the awaited readFile resolves or rejects, then the rest of the function
LoadFromFile ==
  /\ call.fn = "loadEvalDataset"
  /\ returned = Undefined
  /\ returned' = Gave(LoadEvalDataset(call.file, call.options), Undefined)
  /\ UNCHANGED <<call, runnerVars>>

NextLoad ==
  \/ LoadFromObject
  \/ LoadFromFile

SpecLoad == InitLoad /\ [][NextLoad]_vars

\* the value the loader of the call validates: its argument, or what the
\* text of the file parses to
Source ==
  IF call.fn = "loadEvalDataset" THEN call.file.value ELSE call.data

\* the call got a value to validate
Parsed ==
  call.fn = "loadEvalDataset" => (call.file.readable /\ call.file.parseable)

\* the call settled, with validation on
DoneValidated ==
  /\ returned # Undefined
  /\ Parsed
  /\ call.options.validate # Some(FALSE)

\* C21: the loaders validate by default: a dataset whose case list is empty,
\* whose name, a case id or a case toolName is empty, or one of whose cases
\* lacks args, makes the call throw unless validate = false is passed; with
\* validate = false the same input is returned as the dataset, unchecked.
C21_ValidatesByDefault ==
  (returned # Undefined /\ Parsed /\ Source.isObject) =>
    LET cases == Source.cases[1]
        invalid ==
          \/ Len(cases) = 0
          \/ Source.name[1] = ""
          \/ \E i \in 1..Len(cases) :
               cases[i].id = "" \/ cases[i].toolName = ""
               \/ cases[i].args = Undefined
    IN IF call.options.validate = Some(FALSE)
       THEN /\ ~returned[1].out.threw
            /\ Out.name = Source.name
            /\ Out.cases = Source.cases
       ELSE invalid => returned[1].out.threw

\* a dataset without cases, loaded without the option validate, is rejected
C21_Witness ==
  /\ returned # Undefined
  /\ call.fn = "loadEvalDatasetFromObject"
  /\ call.options.validate = Undefined
  /\ call.data.isObject
  /\ call.data.cases = Some(<<>>)
  /\ returned[1].out.threw

\* C22: every dataset the loader returns has the schemas mapping of the
\* load options, each name bound to the validator supplied, or an empty
\* mapping when the options have none; a schemas field of the input never
\* gets into the loaded dataset.
C22_SchemasFromOptions ==
  (returned # Undefined /\ ~returned[1].out.threw) =>
    Out.schemas =
      Some(IF call.options.schemas = Undefined THEN [n \in {} |-> StringSchema]
           ELSE call.options.schemas[1])

\* an input with a schemas field, loaded unvalidated with schemas supplied
C22_Witness ==
  /\ returned # Undefined
  /\ call.fn = "loadEvalDatasetFromObject"
  /\ call.options.validate = Some(FALSE)
  /\ call.data.schemas = Some(PersistedSchemas)
  /\ call.options.schemas = Some([n \in {"known"} |-> StringSchema])
  /\ ~returned[1].out.threw
  /\ Out.schemas = call.options.schemas

\* C23: loading a file whose text is not JSON fails with the parse error
\* 'Failed to parse JSON from <path>'; loading a file whose text parses to a
\* value of the wrong shape fails with a validation error, of another kind;
\* neither returns a dataset.
C23_FailureKindsDistinct ==
  (returned # Undefined /\ call.fn = "loadEvalDataset" /\ call.file.readable)
  =>
    /\ ~call.file.parseable =>
         /\ returned[1].out.threw
         /\ Out.kind = "Error"
         /\ Out.message = "Failed to parse JSON from <path>"
    /\ ( /\ call.file.parseable
         /\ call.options.validate # Some(FALSE)
         /\ ValidateEvalDataset(call.file.value).threw ) =>
         /\ returned[1].out.threw
         /\ Out.kind = "ZodError"
         /\ Out.message # "Failed to parse JSON from <path>"

\* a file that parses to a dataset without cases fails with a ZodError
C23_Witness ==
  /\ returned # Undefined
  /\ call.fn = "loadEvalDataset"
  /\ call.file.parseable
  /\ call.file.value.isObject
  /\ call.file.value.cases = Some(<<>>)
  /\ returned[1].out.threw
  /\ Out.kind = "ZodError"

\* C24: in a dataset returned by a validated load no two cases have the
\* same id.
C24_IdsUnique ==
  (DoneValidated /\ ~returned[1].out.threw) =>
    \A i, j \in 1..Len(Out.cases[1]) :
      i # j => Out.cases[1][i].id # Out.cases[1][j].id

\* C25: a validated load keeps every expectation directive of every case:
\* expectedExact, expectedSchemaName, expectedTextContains, expectedRegex,
\* expectedError and judgeConfigId of the loaded case are those of the
\* source, so that the error expectation does not skip a loaded case whose
\* source declares expectedError.
C25_DirectivesPreserved ==
  (DoneValidated /\ ~returned[1].out.threw) =>
    \A i \in 1..Len(Out.cases[1]) :
      /\ \A f \in Directives :
           Out.cases[1][i].directives[f] = Source.cases[1][i].directives[f]
      /\ Source.cases[1][i].directives.expectedError # Undefined =>
           ErrorExpectation(Out.cases[1][i].directives, EmptyObject)
             # ErrorSkipResult

(***************************************************************************)
(* Two calls of runEvalDataset in a row, with the same options, against    *)
(* collaborators that answer the second call as they answered the first.   *)
(* returned keeps what the first call left; the second call runs in the    *)
(* runner's variables.                                                     *)
(***************************************************************************)

\* line 179: const caseResults = [], made anew by each call
KeptAccumulator == caseResults

NewAccumulator == <<>>

InitTwice ==
  /\ Init
  /\ enabled \in { {}, {"exact"}, {"schema", "judge"} }

\* the first call
First == returned[1]

\* the first call has settled: the second call is made
Rerun ==
  /\ pc \in {"returned", "rejected"}
  /\ returned = Undefined
  /\ returned' = Some([result |-> result, rejection |-> rejection,
                       caseResults |-> caseResults, toolCalls |-> toolCalls])
  /\ pc' = "start"
  /\ idx' = 0
  /\ response' = Undefined
  /\ error' = Undefined
  /\ expectationResults' = EmptyExpectations
  /\ caseResults' = NewAccumulator
  /\ result' = NoResult
  /\ rejection' = Undefined
  /\ toolCalls' = <<>>
  /\ log' = <<>>
  /\ UNCHANGED <<options, call>>

\* in the second call the tool gives for a case what it gave in the first
TwiceCallTool ==
  /\ CallTool
  /\ returned # Undefined => toolCalls'[idx] = First.toolCalls[idx]

\* in the second call the expectation function of kind k gives for a case
\* what it gave in the first: the slot of the case is the same
TwiceRunExpectation(k) ==
  /\ RunExpectation(k)
  /\ returned # Undefined =>
       (IF Len(caseResults') >= idx THEN caseResults'[idx].expectations[k]
        ELSE expectationResults'[k])
       = First.caseResults[idx].expectations[k]

\* in the second call onCaseComplete throws for the case for which it threw
\* in the first, the last one the first call pushed before it rejected
TwiceOnCaseComplete ==
  /\ OnCaseComplete
  /\ returned # Undefined =>
       ( pc' = "rejected" <=>
           (First.rejection # Undefined /\ Len(First.caseResults) = idx) )

NextTwice ==
  \/ Start
  \/ TwiceCallTool
  \/ \E k \in {"exact", "schema", "judge"} : TwiceRunExpectation(k)
  \/ TwiceOnCaseComplete
  \/ Rerun

SpecTwice == InitTwice /\ [][NextTwice]_vars

\* C26: two runs over the same dataset and options, with collaborators that
\* give the same outcome for the same inputs, give the same number of case
\* results, the same passed and failed counts, and the same id and pass at
\* every position.
C26_Deterministic ==
  (returned # Undefined /\ pc = "returned") =>
    /\ First.result # Undefined
    /\ LET a == First.result[1]
           b == result[1]
       IN /\ a.total = b.total
          /\ a.passed = b.passed
          /\ a.failed = b.failed
          /\ Len(a.caseResults) = Len(b.caseResults)
          /\ \A i \in 1..Len(b.caseResults) :
               /\ a.caseResults[i].id = b.caseResults[i].id
               /\ a.caseResults[i].pass = b.caseResults[i].pass

\* the second run returned two case results, one passed and one failed
C26_Witness ==
  /\ returned # Undefined
  /\ pc = "returned"
  /\ result[1].total = 2
  /\ result[1].passed = 1
  /\ result[1].failed = 1

(***************************************************************************)
(* Two calls of runEvalDataset in flight at once, on different datasets.   *)
(* The runner's variables are the locals of the call that is running; call *)
(* keeps the locals of the other one, suspended at an await.  A switch     *)
(* between the two can happen at every await.                              *)
(***************************************************************************)

\* the locals and history of the running call
Frame ==
  [dataset |-> dataset, enabled |-> enabled, stopOnFailure |-> stopOnFailure,
   hasCallback |-> hasCallback, pc |-> pc, idx |-> idx,
   response |-> response, error |-> error,
   expectationResults |-> expectationResults, caseResults |-> caseResults,
   result |-> result, rejection |-> rejection, toolCalls |-> toolCalls,
   log |-> log]

\* the other call: a dataset of its own, no expectations, no callback
OtherCall ==
  [dataset |-> [name |-> "other",
                cases |-> <<[id |-> "other-a"], [id |-> "other-b"]>>],
   enabled |-> {}, stopOnFailure |-> FALSE, hasCallback |-> FALSE,
   pc |-> "start", idx |-> 0, response |-> Undefined, error |-> Undefined,
   expectationResults |-> EmptyExpectations, caseResults |-> <<>>,
   result |-> NoResult, rejection |-> Undefined, toolCalls |-> <<>>,
   log |-> <<>>]

\* line 179: caseResults is a local of the call: the resumed call finds its
\* own accumulator
SharedAccumulator(frame) == caseResults

OwnAccumulator(frame) == frame.caseResults

InitPair ==
  /\ dataset \in Datasets
  /\ enabled = {"exact"}
  /\ stopOnFailure \in BOOLEAN
  /\ hasCallback \in BOOLEAN
  /\ pc = "start"
  /\ idx = 0
  /\ response = Undefined
  /\ error = Undefined
  /\ expectationResults = EmptyExpectations
  /\ caseResults = <<>>
  /\ result = NoResult
  /\ rejection = Undefined
  /\ toolCalls = <<>>
  /\ log = <<>>
  /\ call = OtherCall
  /\ returned = Undefined

\* the call is suspended at an await
InFlight(at) == at \notin {"start", "returned", "rejected"}

\* the running call is suspended at its await, or has settled, and the
\* other call goes on; returned notes that both were in flight at a switch
Switch ==
  /\ call' = Frame
  /\ dataset' = call.dataset
  /\ enabled' = call.enabled
  /\ stopOnFailure' = call.stopOnFailure
  /\ hasCallback' = call.hasCallback
  /\ pc' = call.pc
  /\ idx' = call.idx
  /\ response' = call.response
  /\ error' = call.error
  /\ expectationResults' = call.expectationResults
  /\ caseResults' = OwnAccumulator(call)
  /\ result' = call.result
  /\ rejection' = call.rejection
  /\ toolCalls' = call.toolCalls
  /\ log' = call.log
  /\ returned' = IF InFlight(pc) /\ InFlight(call.pc) THEN Some("interleaved")
                 ELSE returned

NextPair ==
  \/ Start
  \/ CallTool
  \/ \E k \in {"exact", "schema", "judge"} : RunExpectation(k)
  \/ OnCaseComplete
  \/ Switch

SpecPair == InitPair /\ [][NextPair]_vars

\* what a call that returned would have returned had it run alone with the
\* same answers of its collaborators: one case result per case of its own
\* dataset, in order, up to the first failure when stopOnFailure is set,
\* each with the pass of the case's own tool call and expectations
AsAlone(f) ==
  f.pc = "returned" =>
    LET results == f.result[1].caseResults
        n == Len(results)
    IN /\ n <= Len(f.dataset.cases)
       /\ \A i \in 1..n :
            /\ results[i].id = f.dataset.cases[i].id
            /\ results[i].pass =
                 ( /\ f.toolCalls[i].threw =>
                        ErrorMessage(f.toolCalls[i].err[1]) = ""
                   /\ \A k \in DOMAIN results[i].expectations :
                        results[i].expectations[k].pass )
            /\ (i < n /\ f.stopOnFailure) => results[i].pass
       /\ n < Len(f.dataset.cases) => (f.stopOnFailure /\ ~results[n].pass)
       /\ f.result[1].total = n

\* C27: two calls of runEvalDataset on different datasets, interleaved at
\* their awaits in any order: the caseResults each call returns are the
\* results of the cases of its own dataset and none of the other call's,
\* and are what the call returns when it runs alone.
C27_ConcurrentCallsIndependent ==
  AsAlone(Frame) /\ AsAlone(call)

\* both calls returned, each with two case results, after a switch at which
\* both were suspended at an await
C27_Witness ==
  /\ returned = Some("interleaved")
  /\ pc = "returned"
  /\ call.pc = "returned"
  /\ Len(result[1].caseResults) = 2
  /\ Len(call.result[1].caseResults) = 2
  /\ result[1].caseResults[1].id # call.result[1].caseResults[1].id

\* C28: for a case with expectedError = true whose tool call returns, the
\* error expectation applied to the response the runner hands to the
\* expectation functions passes if and only if the result of the tool call
\* had isError === true.
C28_ErrorSeenThroughRunner ==
  Done("errorOnToolResult") =>
    /\ DoneReturned("errorOnToolResult")
    /\ Out.pass <=> (call.response.isError = "true")

(***************************************************************************)
(* Conformance checks (src/src/spec/conformanceChecks.ts).                 *)
(***************************************************************************)

\* the tools a server may list: the name may be missing (""), the
\* inputSchema may be absent or have a type that is or is not "object"
ConformanceTools ==
  [name : {"", "a", "b"}, inputSchema : {"absent", "object", "string"}]

\* the fixture the checks run against: what getServerInfo returns, what
\* listTools resolves to or rejects with, and what callTool of the
\* nonexistent tool does
Mcps ==
  [serverInfo : {"null", "info"},
   listTools  : {Threw("listTools down")}
                  \cup { Returned(ts) : ts \in SeqsUpTo(ConformanceTools,
                                                       MaxList) },
   callTool   : {Threw("unknown tool")}
                  \cup { Returned([isError |-> e]) :
                           e \in {"absent", "true", "false"} }]

ConformanceOptions ==
  [requiredTools   : {Undefined, Some(<<>>), Some(<<"a">>),
                      Some(<<"a", "b">>)},
   validateSchemas : {Undefined, Some(TRUE), Some(FALSE)},
   checkServerInfo : {Undefined, Some(TRUE), Some(FALSE)}]

Check(name, pass, message) ==
  [name |-> name, pass |-> pass, message |-> message]

\* the tools of the list that the schema check reports, by position
InvalidTools(tools) ==
  { i \in 1..Len(tools) :
      \/ tools[i].name = ""
      \/ tools[i].inputSchema # "object" }

LastCheckPasses(checks) ==
  checks = <<>> \/ checks[Len(checks)].pass

\* line 173: checks.every((check) => check.pass)
EveryCheckPasses(checks) ==
  \A i \in 1..Len(checks) : checks[i].pass

\* runConformanceChecks: the result it returns and, in calls, the methods
\* of the fixture it invoked, in order
RunConformanceChecks(mcp, opts) ==
  LET requiredTools ==
        IF opts.requiredTools = Undefined THEN <<>>
        ELSE opts.requiredTools[1]
      validateSchemas ==
        IF opts.validateSchemas = Undefined THEN TRUE
        ELSE opts.validateSchemas[1]
      checkServerInfo ==
        IF opts.checkServerInfo = Undefined THEN TRUE
        ELSE opts.checkServerInfo[1]
      check1 ==
        IF checkServerInfo
        THEN << Check("server_info_present", mcp.serverInfo # "null",
                      IF mcp.serverInfo = "null"
                      THEN "Server info is missing" ELSE "Server info") >>
        ELSE <<>>
      calls1 == IF checkServerInfo THEN <<"getServerInfo">> ELSE <<>>
  IN
  IF mcp.listTools.threw
  THEN [result |->
          [pass   |-> FALSE,
           checks |-> Append(check1,
                             Check("list_tools_succeeds", FALSE,
                                   <<"listTools failed",
                                     mcp.listTools.value>>))],
        calls  |-> Append(calls1, "listTools")]
  ELSE
    LET tools == mcp.listTools.value
        toolNames == { tools[i].name : i \in 1..Len(tools) }
        missingTools ==
          SelectSeq(requiredTools, LAMBDA name : name \notin toolNames)
        check2 ==
          << Check("list_tools_succeeds", TRUE,
                   <<"listTools returned tools", Len(tools)>>) >>
        check3 ==
          IF Len(requiredTools) > 0
          THEN << Check("required_tools_present", Len(missingTools) = 0,
                        IF Len(missingTools) = 0
                        THEN <<"All required tools are present",
                               Len(requiredTools)>>
                        ELSE <<"Missing required tools", missingTools>>) >>
          ELSE <<>>
        check4 ==
          IF validateSchemas /\ Len(tools) > 0
          THEN << Check("tool_schemas_valid", InvalidTools(tools) = {},
                        IF InvalidTools(tools) = {}
                        THEN <<"All tools have valid schemas", Len(tools)>>
                        ELSE <<"Invalid tool schemas",
                               InvalidTools(tools)>>) >>
          ELSE <<>>
        hasError ==
          ~mcp.callTool.threw /\ mcp.callTool.value.isError = "true"
        check5 ==
          << Check("invalid_tool_returns_error",
                   mcp.callTool.threw \/ hasError,
                   IF mcp.callTool.threw
                   THEN "Nonexistent tool correctly threw an error"
                   ELSE IF hasError
                   THEN "Nonexistent tool correctly returned an error"
                   ELSE "Calling nonexistent tool should have returned an error")
          >>
        checks == check1 \o check2 \o check3 \o check4 \o check5
    IN [result |-> [pass |-> EveryCheckPasses(checks), checks |-> checks],
        calls  |-> calls1 \o <<"listTools", "callTool">>]

InitConform ==
  /\ call \in [fn : {"runConformanceChecks"}, mcp : Mcps,
               options : ConformanceOptions]
  /\ returned = Undefined
  /\ dataset = [name |-> "dataset", cases |-> <<>>]
  /\ enabled = {}
  /\ stopOnFailure = FALSE
  /\ hasCallback = FALSE
  /\ pc = "none"
  /\ idx = 0
  /\ response = Undefined
  /\ error = Undefined
  /\ expectationResults = EmptyExpectations
  /\ caseResults = <<>>
  /\ result = NoResult
  /\ rejection = Undefined
  /\ toolCalls = <<>>
  /\ log = <<>>

\* one call of runConformanceChecks; toolCalls records the methods of the
\* fixture it invoked
Conform ==
  /\ call.fn = "runConformanceChecks"
  /\ returned = Undefined
  /\ LET out == RunConformanceChecks(call.mcp, call.options)
     IN /\ returned' = Some(out.result)
        /\ toolCalls' = out.calls
  /\ UNCHANGED <<call, dataset, enabled, stopOnFailure, hasCallback, pc, idx,
                 response, error, expectationResults, caseResults, result,
                 rejection, log>>

SpecConform == InitConform /\ [][Conform]_vars

Conformed == returned # Undefined /\ call.fn = "runConformanceChecks"

\* C29: in every result runConformanceChecks returns, pass is true if and
\* only if every entry of checks has pass = true; when listTools throws, the
\* result has pass = false, its last check is the failed
\* list_tools_succeeds, and callTool was never invoked.
C29_PassIffEveryCheck ==
  Conformed =>
    LET r == returned[1] IN
    /\ r.pass <=> (\A i \in 1..Len(r.checks) : r.checks[i].pass)
    /\ call.mcp.listTools.threw =>
         /\ ~r.pass
         /\ r.checks # <<>>
         /\ r.checks[Len(r.checks)].name = "list_tools_succeeds"
         /\ ~r.checks[Len(r.checks)].pass
         /\ \A i \in 1..Len(toolCalls) : toolCalls[i] # "callTool"

\* a normal completion in which an earlier check failed and the last one
\* passed: the result does not pass
C29_Witness ==
  /\ Conformed
  /\ ~call.mcp.listTools.threw
  /\ Len(returned[1].checks) >= 3
  /\ ~returned[1].checks[1].pass
  /\ returned[1].checks[Len(returned[1].checks)].pass
  /\ ~returned[1].pass
  /\ toolCalls[Len(toolCalls)] = "callTool"

\* the early return: listTools threw after the server info check passed
C29_WitnessEarlyReturn ==
  /\ Conformed
  /\ call.mcp.listTools.threw
  /\ Len(returned[1].checks) = 2
  /\ returned[1].checks[1].pass
  /\ ~returned[1].pass

(***************************************************************************)
(* Expectation suggester: suggestTextContains (src/unnamed/part_000).      *)
(***************************************************************************)

\* if (suggestions.length === 0 && text.length > 10)
FallbackMinLength == 10

\* firstLine.substring(0, 50)
FallbackMaxChars == 50

\* the classes of characters the three patterns tell apart: "K" stands for
\* [A-Z], "a" for [a-z], " " and "\n" for \s
SuggestChars == {"#", " ", "*", "K", "a", ":", "\n"}

Whitespace == {" ", "\n"}

Run(c, n) == [i \in 1..n |-> c]

\* lines with and without a header mark, a bold span and a key; bodies
\* below and above the two lengths the fallback tests; one line with more
\* bold spans than qualify
SuggestLines ==
  { prefix \o Run("a", n) \o suffix :
      prefix \in { <<>>, <<"#", " ">>, <<"*", "*">>, <<"K", "a", ":", " ">> },
      n \in { 0, 1, FallbackMinLength + 1, FallbackMaxChars + 1 },
      suffix \in { <<>>, <<"*", "*">> } }
  \cup { Join([i \in 1..6 |-> <<"*", "*", "a", "*", "*">>], <<" ">>) }

SuggestTexts ==
  { Join(ls, <<"\n">>) : ls \in SeqsUpTo(SuggestLines, MaxList) }

\* the number of characters of the class that follow each other from
\* position p on: what a greedy class+ or class* consumes
RunLength(text, p, class) ==
  CHOOSE k \in 0..(Len(text) - p + 1) :
    /\ \A i \in p..(p + k - 1) : text[i] \in class
    /\ p + k > Len(text) \/ text[p + k] \notin class

\* the position after the last character of the line position b is in:
\* where a greedy .+ started at b stops and $ holds under the flag m
EndOfLine(text, b) ==
  b + RunLength(text, b, SuggestChars \ {"\n"})

\* where (.+) starts after a greedy \s+ or \s* run that begins at position
\* c and must consume at least least characters: the run gives characters
\* back until a character other than a line break follows it; 0 if none
RestStart(text, c, least) ==
  LET starts == { b \in (c + least)..(c + RunLength(text, c, Whitespace)) :
                    b <= Len(text) /\ text[b] # "\n" }
  IN IF starts = {} THEN 0
     ELSE CHOOSE b \in starts : \A other \in starts : other <= b

\* text.matchAll(/^(#{1,6})\s+(.+)$/gm) from position p on, each match as
\* `${match[1]} ${match[2]}`
RECURSIVE HeaderMatches(_, _)
HeaderMatches(text, p) ==
  IF p > Len(text) THEN <<>>
  ELSE
    LET hashes == RunLength(text, p, {"#"})
        b == RestStart(text, p + hashes, 1)
        matched == /\ p \in LineStarts(text)
                   /\ hashes \in 1..6
                   /\ b # 0
    IN IF matched
       THEN << SubSeq(text, p, p + hashes - 1) \o <<" ">>
                 \o SubSeq(text, b, EndOfLine(text, b) - 1) >>
              \o HeaderMatches(text, EndOfLine(text, b))
       ELSE HeaderMatches(text, p + 1)

\* text.matchAll(/\*\*([^*]+)\*\*/g) from position p on, each match as
\* match[0]
RECURSIVE BoldMatches(_, _)
BoldMatches(text, p) ==
  IF p + 4 > Len(text) THEN <<>>
  ELSE
    LET inner == RunLength(text, p + 2, SuggestChars \ {"*"})
        matched == /\ text[p] = "*"
                   /\ text[p + 1] = "*"
                   /\ inner >= 1
                   /\ p + 3 + inner <= Len(text)
                   /\ text[p + 2 + inner] = "*"
                   /\ text[p + 3 + inner] = "*"
    IN IF matched
       THEN << SubSeq(text, p, p + 3 + inner) >>
              \o BoldMatches(text, p + 4 + inner)
       ELSE BoldMatches(text, p + 1)

\* text.matchAll(/^([A-Z][a-z\s]+):\s*(.+)$/gm) from position p on, each
\* match as match[0]
RECURSIVE KvMatches(_, _)
KvMatches(text, p) ==
  IF p > Len(text) THEN <<>>
  ELSE
    LET key == RunLength(text, p + 1, {"a", " ", "\n"})
        colon == p + 1 + key
        b == RestStart(text, colon + 1, 0)
        matched == /\ p \in LineStarts(text)
                   /\ text[p] = "K"
                   /\ key >= 1
                   /\ colon <= Len(text)
                   /\ text[colon] = ":"
                   /\ b # 0
    IN IF matched
       THEN << SubSeq(text, p, EndOfLine(text, b) - 1) >>
              \o KvMatches(text, EndOfLine(text, b))
       ELSE KvMatches(text, p + 1)

\* [...new Set(suggestions)]: the first occurrence of each, in order
RECURSIVE Unique(_)
Unique(list) ==
  IF list = <<>> THEN <<>>
  ELSE LET rest == Unique(SubSeq(list, 1, Len(list) - 1))
           last == list[Len(list)]
       IN IF \E i \in 1..Len(rest) : rest[i] = last THEN rest
          ELSE Append(rest, last)

\* lines 45-65: the suggestions of the headers, of the bold spans and of
\* the Key: value lines, the latter two only when there are 1 to 5 of
\* them, and then the first 3
Detected(text) ==
  LET boldTexts == BoldMatches(text, 1)
      kvPairs == KvMatches(text, 1)
  IN HeaderMatches(text, 1)
       \o (IF Len(boldTexts) > 0 /\ Len(boldTexts) <= 5
           THEN Slice(boldTexts, 3) ELSE <<>>)
       \o (IF Len(kvPairs) > 0 /\ Len(kvPairs) <= 5
           THEN Slice(kvPairs, 3) ELSE <<>>)

\* text.split('\n')[0]
FirstLine(text) == SubSeq(text, 1, EndOfLine(text, 1) - 1)

\* suggestTextContains
SuggestTextContains(text) ==
  LET suggestions == Detected(text)
  IN Unique(IF /\ Len(suggestions) = 0
               /\ Len(text) > FallbackMinLength
               /\ Len(FirstLine(text)) > 0
            THEN << Slice(FirstLine(text), FallbackMaxChars) >>
            ELSE suggestions)

InitSuggest ==
  /\ call \in [fn : {"suggestTextContains"}, text : SuggestTexts]
  /\ returned = Undefined
  /\ dataset = [name |-> "dataset", cases |-> <<>>]
  /\ enabled = {}
  /\ stopOnFailure = FALSE
  /\ hasCallback = FALSE
  /\ pc = "none"
  /\ idx = 0
  /\ response = Undefined
  /\ error = Undefined
  /\ expectationResults = EmptyExpectations
  /\ caseResults = <<>>
  /\ result = NoResult
  /\ rejection = Undefined
  /\ toolCalls = <<>>
  /\ log = <<>>

Suggest ==
  /\ call.fn = "suggestTextContains"
  /\ returned = Undefined
  /\ returned' = Some(SuggestTextContains(call.text))
  /\ UNCHANGED <<call, runnerVars>>

SpecSuggest == InitSuggest /\ [][Suggest]_vars

Suggested == returned # Undefined /\ call.fn = "suggestTextContains"

\* C30: for every text in which no header, no qualifying bold span and no
\* qualifying Key: value line contributes a suggestion and whose first line
\* is not empty, the text-contains suggestions are exactly the first line
\* truncated to 50 characters, whatever the length of the text.
C30_FallbackFirstLine ==
  ( /\ Suggested
    /\ Detected(call.text) = <<>>
    /\ FirstLine(call.text) # <<>> ) =>
    returned[1] = << Slice(FirstLine(call.text), FallbackMaxChars) >>

====
